---- MODULE Spec2Model ----
(***************************************************************************)
(* Run dialogs of spyder/plugins/run/widgets.py:                           *)
(*   ExecutionParametersDialog  (the single-use parameter editor)          *)
(*   RunDialog                  (the per-file run dialog)                  *)
(*                                                                         *)
(* The dialog object is the record `self`: its Python attributes and the   *)
(* observable state of its child widgets.  Every handler of the source is  *)
(* an operator from a dialog record to a dialog record, so that a signal   *)
(* fired synchronously inside a handler (currentIndexChanged inside        *)
(* setCurrentIndex / addItems / clear) runs the connected slot in place.   *)
(* An exception raised inside a slot ends that slot only (the toolkit      *)
(* reports it at the slot boundary); it is kept in `self.raised`.          *)
(***************************************************************************)
EXTENDS Integers, Sequences, FiniteSets, TLC

VARIABLES
    self,         \* the dialog object (attributes + child widgets)
    op,           \* the last operation performed on the dialog (history)
    uuid4_calls   \* number of identifiers uuid4() has produced so far

vars == <<self, op, uuid4_calls>>

----------------------------------------------------------------------------
(* Bounds of the model *)

\* identifiers uuid4() may produce in one run
MaxUuid4 == 2
\* directories the user can type or pick besides the empty text
MaxDirs == 1
\* presets the persistence layer holds for one executor
MaxPresets == 2

----------------------------------------------------------------------------
(* Values *)

None == "None"

\* RunDialogStatus
Close == 0
Save == 1
Run == 2

\* status |= flag, for the one-bit flags Save and Run
BitOr(status, flag) ==
    IF (status \div flag) % 2 = 1 THEN status ELSE status + flag

HasFlag(status, flag) == (status \div flag) % 2 = 1

\* WorkingDirSource
ConfigurationDirectory == "ConfigurationDirectory"
CurrentDirectory == "CurrentDirectory"
CustomDirectory == "CustomDirectory"

WorkingDirSource == {ConfigurationDirectory, CurrentDirectory, CustomDirectory}

WorkingDirOpts(source, path) == [source |-> source, path |-> path]

RunExecutionParameters(working_dir, executor_params) ==
    [working_dir |-> working_dir, executor_params |-> executor_params]

ExtendedRunExecutionParameters(uuid, name, params, file_uuid) ==
    [uuid |-> uuid, name |-> name, params |-> params, file_uuid |-> file_uuid]

DirNames == <<"/a", "/b", "/c", "/d">>
Dirs == {DirNames[i] : i \in 1..MaxDirs}

\* the n-th identifier produced by str(uuid4()): distinct from every stored one
uuid4(n) == "uuid4-" \o ToString(n)

\* list.index(x), 0-based; the caller checks membership first
ListIndex(list, x) ==
    (CHOOSE i \in 1..Len(list) :
        list[i] = x /\ \A j \in 1..(i - 1) : list[j] # x) - 1

Range(list) == {list[i] : i \in 1..Len(list)}

----------------------------------------------------------------------------
(* The configuration widget collaborator.  A configuration is an opaque     *)
(* mapping; the model keeps four of them, named by their content:           *)
(* "{}", "a=0", "a=1" and "b=1" (and None where the code allows it).        *)

\* mapping.keys()
Keys(conf) ==
    CASE conf = "{}" -> {}
      [] conf \in {"a=0", "a=1"} -> {"a"}
      [] conf = "b=1" -> {"b"}
      [] OTHER -> {"<None has no keys>"}

\* truth value of `mapping or default`: None and the empty mapping are falsy
Truthy(conf) == conf \notin {None, "{}"}

\* widget classes: the fallback generic group and one executor-specific widget
RunExecutorConfigurationGroup == "RunExecutorConfigurationGroup"
ExecutorConfWidget == "ExecutorConfWidget"

NoWidget == [class |-> None, conf |-> None, set_with |-> None]

get_default_configuration(widget) ==
    IF widget.class = RunExecutorConfigurationGroup THEN "{}" ELSE "a=0"

\* ConfigWidget(parent, context, extension, metadata)
NewWidget(class) ==
    [class |-> class,
     conf |-> IF class = RunExecutorConfigurationGroup THEN "{}" ELSE "a=0",
     set_with |-> None]

get_configuration(widget) == widget.conf

\* set_with records the argument of the last set_configuration call
set_configuration(widget, conf) ==
    IF widget.class = RunExecutorConfigurationGroup
    THEN [widget EXCEPT !.set_with = conf]
    ELSE [widget EXCEPT !.conf = conf, !.set_with = conf]

----------------------------------------------------------------------------
(* Toolkit primitives *)

\* F applied to the value of v: a handler's statements run in sequence, each
\* on the state the previous one left
Bind(v, F(_)) == CHOOSE r \in {F(x) : x \in {v}} : TRUE

\* an exception leaves the handler: the rest of the handler is skipped
Raise(s, exception) == [s EXCEPT !.exc = exception]

\* the slot boundary: an exception that left the slot is reported, not propagated
Slot(s) ==
    Bind(s, LAMBDA r :
    IF r.exc = "" THEN r ELSE [r EXCEPT !.raised = r.exc, !.exc = ""])

\* QComboBox.setCurrentIndex on a combo of `count` items
ValidIndex(index, count) == IF index >= 0 /\ index < count THEN index ELSE -1

NewCombo == [items |-> <<>>, currentIndex |-> -1, enabled |-> TRUE]

----------------------------------------------------------------------------
(* ExecutionParametersDialog *)

ExecutionParametersDialog == "ExecutionParametersDialog"
RunDialog == "RunDialog"

\* variant that clears the path field for CustomDirectory too
context_changed_working_dir_clears(s, working_dir_params) ==
    LET source == working_dir_params.source
    IN  Bind([s EXCEPT !.applied_working_dir = <<working_dir_params>>,
                       !.working_dir_edited = FALSE], LAMBDA h :
        [h EXCEPT !.file_dir_radio = (source = ConfigurationDirectory),
                  !.cwd_radio = (source = CurrentDirectory),
                  !.fixed_dir_radio = (source = CustomDirectory),
                  !.wd_edit = ""])

\* context_changed, lines 339-356: drive the three selectors and the path field.
\* applied_working_dir / working_dir_edited are history: the options last
\* applied, and whether the user touched the controls since.
context_changed_working_dir(s, working_dir_params) ==
    LET source == working_dir_params.source
        path == working_dir_params.path
    IN  Bind([s EXCEPT !.applied_working_dir = <<working_dir_params>>,
                       !.working_dir_edited = FALSE], LAMBDA h :
        IF source = ConfigurationDirectory
        THEN [h EXCEPT !.file_dir_radio = TRUE, !.cwd_radio = FALSE,
                       !.fixed_dir_radio = FALSE, !.wd_edit = ""]
        ELSE IF source = CurrentDirectory
        THEN [h EXCEPT !.file_dir_radio = FALSE, !.cwd_radio = TRUE,
                       !.fixed_dir_radio = FALSE, !.wd_edit = ""]
        ELSE IF source = CustomDirectory
        THEN IF path = None
             THEN Raise([h EXCEPT !.file_dir_radio = FALSE, !.cwd_radio = FALSE,
                                  !.fixed_dir_radio = TRUE], "TypeError")
             ELSE [h EXCEPT !.file_dir_radio = FALSE, !.cwd_radio = FALSE,
                            !.fixed_dir_radio = TRUE, !.wd_edit = path]
        ELSE h)

\* context_changed, lines 320-337: the parameters handed to the widget
context_changed_set_configuration(s, exec_params) ==
    LET default_params == get_default_configuration(s.current_widget)
        params_set == IF Truthy(exec_params.executor_params)
                      THEN exec_params.executor_params
                      ELSE default_params
    IN  IF Keys(params_set) = Keys(default_params)
        THEN [s EXCEPT !.current_widget = set_configuration(@, params_set)]
        ELSE s

\* variant whose test of the working-directory group lost its negation
context_changed_ok_btn_wdir_enabled(s) ==
    IF ~s.executor_group /\ s.wdir_group
    THEN [s EXCEPT !.ok_btn = FALSE]
    ELSE s

\* context_changed, lines 358-361
context_changed_ok_btn(s) ==
    IF ~s.executor_group /\ ~s.wdir_group
    THEN [s EXCEPT !.ok_btn = FALSE]
    ELSE s

context_changed(s, index) ==
    IF index < 0 THEN s ELSE
    Bind([s EXCEPT !.current_widget = NoWidget,
                   !.selected_context = s.context_combo.items[index + 1]],
         LAMBDA s1 :
    LET key == <<s1.selected_extension, s1.selected_context>>
    IN  IF key \notin DOMAIN s1.executor_params THEN Raise(s1, "KeyError") ELSE
        LET executor_conf_metadata == s1.executor_params[key]
            requires_cwd == executor_conf_metadata.requires_cwd
            ConfigWidget ==
                IF executor_conf_metadata.configuration_widget # None
                THEN executor_conf_metadata.configuration_widget
                ELSE RunExecutorConfigurationGroup
            exec_params ==
                IF s1.default_params # <<>>
                THEN s1.default_params[1].params
                ELSE RunExecutionParameters(
                         WorkingDirOpts(ConfigurationDirectory, None), None)
            working_dir_params == exec_params.working_dir
        IN  Bind([s1 EXCEPT
                    !.executor_group =
                        (executor_conf_metadata.configuration_widget # None),
                    !.wdir_group = requires_cwd,
                    !.current_widget = NewWidget(ConfigWidget)], LAMBDA s2 :
            Bind(context_changed_set_configuration(s2, exec_params), LAMBDA s3 :
            Bind(context_changed_working_dir(s3, working_dir_params), LAMBDA s4 :
            IF s4.exc # "" THEN s4 ELSE context_changed_ok_btn(s4)))))

\* context_combo.setCurrentIndex(index); currentIndexChanged -> context_changed
context_combo_setCurrentIndex(s, index) ==
    LET new == ValidIndex(index, Len(s.context_combo.items))
    IN  IF new = s.context_combo.currentIndex THEN s
        ELSE Bind([s EXCEPT !.context_combo.currentIndex = new], LAMBDA s1 :
             Slot(context_changed(s1, new)))

\* context_combo.clear()
context_combo_clear(s) ==
    Bind([s EXCEPT !.context_combo.items = <<>>], LAMBDA s1 :
    context_combo_setCurrentIndex(s1, -1))

\* context_combo.addItems(contexts): the first item inserted into an empty
\* combo box becomes the current one
context_combo_addItems(s, contexts) ==
    Bind([s EXCEPT !.context_combo.items = @ \o contexts], LAMBDA s1 :
    IF s.context_combo.items = <<>> /\ contexts # <<>>
    THEN context_combo_setCurrentIndex(s1, 0)
    ELSE s1)

\* extension_changed, lines 285-288
extension_changed_select_context(s, contexts) ==
    IF s.context # None /\ s.context \notin Range(contexts)
    THEN Raise(s, "ValueError") ELSE
    LET context_index == IF s.context # None
                         THEN ListIndex(contexts, s.context)
                         ELSE 0
    IN  context_combo_setCurrentIndex(s, context_index)

extension_changed(s, index) ==
    IF index < 0 THEN s ELSE
    Bind([s EXCEPT !.selected_extension = s.extension_combo.items[index + 1]],
         LAMBDA s1 :
    IF s1.selected_extension \notin DOMAIN s1.contexts
    THEN Raise(s1, "KeyError") ELSE
    LET contexts == s1.contexts[s1.selected_extension]
    IN  Bind(context_combo_clear(s1), LAMBDA s2 :
        Bind(context_combo_addItems(s2, contexts), LAMBDA s3 :
        Bind(context_combo_setCurrentIndex(s3, -1), LAMBDA s4 :
        extension_changed_select_context(s4, contexts)))))

\* extension_combo.setCurrentIndex(index); currentIndexChanged -> extension_changed
extension_combo_setCurrentIndex(s, index) ==
    LET new == ValidIndex(index, Len(s.extension_combo.items))
    IN  IF new = s.extension_combo.currentIndex THEN s
        ELSE Bind([s EXCEPT !.extension_combo.currentIndex = new], LAMBDA s1 :
             Slot(extension_changed(s1, new)))

extension_combo_addItems(s, extensions) ==
    Bind([s EXCEPT !.extension_combo.items = @ \o extensions], LAMBDA s1 :
    IF s.extension_combo.items = <<>> /\ extensions # <<>>
    THEN extension_combo_setCurrentIndex(s1, 0)
    ELSE s1)

\* ExecutionParametersDialog.setup, lines 259-272
EPD_setup(s) ==
    Bind(extension_combo_addItems(s, s.extensions), LAMBDA s1 :
    IF s1.extension # None /\ s1.extension \notin Range(s1.extensions)
    THEN Raise(s1, "ValueError") ELSE
    LET extension_index == IF s1.extension # None
                           THEN ListIndex(s1.extensions, s1.extension)
                           ELSE 0
    IN  Bind([s1 EXCEPT
                !.extension_combo.enabled = (s1.extension = None),
                !.context_combo.enabled = (s1.context = None)], LAMBDA s3 :
        Bind(extension_combo_setCurrentIndex(s3, extension_index), LAMBDA s4 :
        IF s4.parameters_name \notin {None, ""}
        THEN [s4 EXCEPT !.store_params_text = s4.parameters_name,
                        !.is_setup = TRUE]
        ELSE [s4 EXCEPT !.is_setup = TRUE])))

EPD_reset_btn_clicked(s) ==
    LET index == s.context_combo.currentIndex
    IN  context_changed(s, index)

\* get_configuration, lines 385-389: <<>> stands for None
EPD_get_configuration(s) == [exc |-> "", value |-> s.saved_conf]

\* variant that reads the path field whatever the selector
EPD_accept_working_dir_keeps_path(s) ==
    IF s.file_dir_radio
    THEN WorkingDirOpts(ConfigurationDirectory, s.wd_edit)
    ELSE IF s.cwd_radio
    THEN WorkingDirOpts(CurrentDirectory, s.wd_edit)
    ELSE WorkingDirOpts(CustomDirectory, s.wd_edit)

\* accept, lines 397-407: read the selectors back
EPD_accept_working_dir(s) ==
    IF s.file_dir_radio
    THEN WorkingDirOpts(ConfigurationDirectory, None)
    ELSE IF s.cwd_radio
    THEN WorkingDirOpts(CurrentDirectory, None)
    ELSE WorkingDirOpts(CustomDirectory, s.wd_edit)

\* variant of the end of accept without the name check
EPD_accept_store_unchecked(s, uuid, exec_params) ==
    LET ext_exec_params ==
            ExtendedRunExecutionParameters(
                uuid, s.store_params_text, exec_params, None)
    IN  [s EXCEPT !.saved_conf = << <<s.selected_extension,
                                      s.selected_context,
                                      ext_exec_params>> >>,
                  !.result = "Accepted"]

\* variant of the end of accept that stores the result before the name check
EPD_accept_store_early(s, uuid, exec_params) ==
    LET name == s.store_params_text
        ext_exec_params ==
            ExtendedRunExecutionParameters(uuid, name, exec_params, None)
    IN  Bind([s EXCEPT !.saved_conf = << <<s.selected_extension,
                                           s.selected_context,
                                           ext_exec_params>> >>], LAMBDA s1 :
        IF name = ""
        THEN [s1 EXCEPT !.placeholder = "Set a name here to proceed!"]
        ELSE [s1 EXCEPT !.result = "Accepted"])

\* accept, lines 417-434: the name check, the result and QDialog.accept
EPD_accept_store(s, uuid, exec_params) ==
    LET name == s.store_params_text
    IN  IF name = ""
        THEN [s EXCEPT !.placeholder = "Set a name here to proceed!"]
        ELSE LET ext_exec_params ==
                     ExtendedRunExecutionParameters(uuid, name, exec_params, None)
             IN  [s EXCEPT !.saved_conf = << <<s.selected_extension,
                                               s.selected_context,
                                               ext_exec_params>> >>,
                           !.result = "Accepted"]

\* uuid4() is called only when there are no default_params (lines 412-415)
EPD_accept_calls_uuid4(s) ==
    s.current_widget.class # None /\ s.default_params = <<>>

EPD_accept(s, new_uuid) ==
    Bind([s EXCEPT !.status = BitOr(@, Save)], LAMBDA s1 :
    IF s1.current_widget.class = None
    THEN Raise(s1, "AttributeError") ELSE
    LET widget_conf == get_configuration(s1.current_widget)
        cwd_opts == EPD_accept_working_dir(s1)
        exec_params == RunExecutionParameters(cwd_opts, widget_conf)
        uuid == IF s1.default_params # <<>>
                THEN s1.default_params[1].uuid
                ELSE new_uuid
    IN  EPD_accept_store(s1, uuid, exec_params))

\* ExecutionParametersDialog.__init__, lines 145-160, and the child widgets
\* as setup creates them (lines 169-231) before any signal fires
EPD_init(executor_params, extensions, contexts, default_params, extension, context) ==
    [class |-> ExecutionParametersDialog,
     executor_params |-> executor_params,
     default_params |-> default_params,
     extensions |-> extensions,
     contexts |-> contexts,
     extension |-> extension,
     context |-> context,
     parameters_name |-> IF default_params # <<>>
                         THEN default_params[1].name ELSE None,
     current_widget |-> NoWidget,
     status |-> Close,
     saved_conf |-> <<>>,
     defined |-> {"saved_conf"},
     selected_extension |-> None,
     selected_context |-> None,
     extension_combo |-> NewCombo,
     context_combo |-> NewCombo,
     executor_group |-> TRUE,
     wdir_group |-> TRUE,
     file_dir_radio |-> FALSE,
     cwd_radio |-> FALSE,
     fixed_dir_radio |-> FALSE,
     wd_edit |-> "",
     store_params_text |-> "",
     placeholder |-> "",
     ok_btn |-> TRUE,
     result |-> "Open",
     is_setup |-> FALSE,
     exc |-> "",
     raised |-> "",
     applied_working_dir |-> <<>>,
     working_dir_edited |-> FALSE]

----------------------------------------------------------------------------
(* The models injected into RunDialog.  Their code is not part of            *)
(* widgets.py; they are modelled from the interface the dialog uses:         *)
(* a list of files, a list of executors per file, and a list of named        *)
(* presets followed by one "default" entry.                                  *)

SetDefaults == "SetDefaults"
SwitchValues == "SwitchValues"

\* executors_model rows for a file, and the executor information per name
ExecutorsFor(uuid) ==
    IF uuid = "X" THEN <<"ipython", "external">> ELSE <<"external", "ipython">>

ExecutorInfo(executor_name) ==
    IF executor_name = "ipython"
    THEN [requires_cwd |-> TRUE, configuration_widget |-> ExecutorConfWidget]
    ELSE [requires_cwd |-> FALSE, configuration_widget |-> None]

\* executors_model.get_initial_index()
executors_get_initial_index(executors_model) == 0

\* parameter_model: rowCount, the stored presets plus the default entry
parameter_model_rowCount(parameter_model) == Len(parameter_model.params) + 1

\* parameter_model.get_executor_parameters(index) -> (action, params)
get_executor_parameters(parameter_model, index) ==
    IF index = Len(parameter_model.params)
    THEN [action |-> SetDefaults,
          params |-> RunExecutionParameters(
                         WorkingDirOpts(ConfigurationDirectory, None), "{}")]
    ELSE [action |-> SwitchValues,
          params |-> parameter_model.params[index + 1].params]

\* parameter_model.get_parameters_index_by_uuid(uuid): the default entry when
\* no preset has that identifier
get_parameters_index_by_uuid(parameter_model, uuid) ==
    LET hits == {i \in 1..Len(parameter_model.params) :
                    parameter_model.params[i].uuid = uuid}
    IN  IF hits = {} THEN Len(parameter_model.params)
        ELSE (CHOOSE i \in hits : \A j \in hits : i <= j) - 1

\* parameter_model.get_parameters_index_by_name(name): -1 when no preset has it
get_parameters_index_by_name(parameter_model, name) ==
    LET hits == {i \in 1..Len(parameter_model.params) :
                    parameter_model.params[i].name = name}
    IN  IF hits = {} THEN -1
        ELSE (CHOOSE i \in hits : \A j \in hits : i <= j) - 1

\* parameter_model.get_parameters_uuid_name(index) -> (uuid, name)
get_parameters_uuid_name(parameter_model, index) ==
    IF index = Len(parameter_model.params)
    THEN <<None, None>>
    ELSE <<parameter_model.params[index + 1].uuid,
           parameter_model.params[index + 1].name>>

\* parameter_model.set_parameters(parameters); set_for is history: the file
\* the presets were handed over for
set_parameters(parameter_model, parameters, uuid) ==
    [parameter_model EXCEPT !.params = parameters, !.set_for = uuid]

\* run_conf_model.get_selected_metadata(); <<>> stands for None
get_selected_metadata(run_conf_model) ==
    LET hits == {i \in 1..Len(run_conf_model.configurations) :
                    run_conf_model.configurations[i].uuid =
                        run_conf_model.current_configuration}
    IN  IF hits = {} THEN <<>>
        ELSE <<run_conf_model.configurations[CHOOSE i \in hits : TRUE]>>

----------------------------------------------------------------------------
(* RunDialog *)

\* parameters_combo.count(): the rows of its model, once setup attached it
parameters_combo_count(s) ==
    IF s.parameters_combo.has_model
    THEN parameter_model_rowCount(s.parameter_model)
    ELSE 0

\* variant that keeps the text of the path field for CurrentDirectory
update_parameter_set_working_dir_keeps_text(s, working_dir_params) ==
    LET source == working_dir_params.source
        path == working_dir_params.path
    IN  Bind([s EXCEPT !.applied_working_dir = <<working_dir_params>>,
                       !.working_dir_edited = FALSE], LAMBDA h :
        IF source = ConfigurationDirectory
        THEN [h EXCEPT !.file_dir_radio = TRUE, !.cwd_radio = FALSE,
                       !.fixed_dir_radio = FALSE, !.wd_edit = ""]
        ELSE IF source = CurrentDirectory
        THEN [h EXCEPT !.file_dir_radio = FALSE, !.cwd_radio = TRUE,
                       !.fixed_dir_radio = FALSE]
        ELSE IF path = None
        THEN Raise([h EXCEPT !.file_dir_radio = FALSE, !.cwd_radio = FALSE,
                             !.fixed_dir_radio = TRUE], "TypeError")
        ELSE [h EXCEPT !.file_dir_radio = FALSE, !.cwd_radio = FALSE,
                       !.fixed_dir_radio = TRUE, !.wd_edit = path])

\* update_parameter_set, lines 634-651: drive the selectors and the path field
update_parameter_set_working_dir(s, working_dir_params) ==
    LET source == working_dir_params.source
        path == working_dir_params.path
    IN  Bind([s EXCEPT !.applied_working_dir = <<working_dir_params>>,
                       !.working_dir_edited = FALSE], LAMBDA h :
        IF source = ConfigurationDirectory
        THEN [h EXCEPT !.file_dir_radio = TRUE, !.cwd_radio = FALSE,
                       !.fixed_dir_radio = FALSE, !.wd_edit = ""]
        ELSE IF source = CurrentDirectory
        THEN [h EXCEPT !.file_dir_radio = FALSE, !.cwd_radio = TRUE,
                       !.fixed_dir_radio = FALSE, !.wd_edit = ""]
        ELSE IF source = CustomDirectory
        THEN IF path = None
             THEN Raise([h EXCEPT !.file_dir_radio = FALSE, !.cwd_radio = FALSE,
                                  !.fixed_dir_radio = TRUE], "TypeError")
             ELSE [h EXCEPT !.file_dir_radio = FALSE, !.cwd_radio = FALSE,
                            !.fixed_dir_radio = TRUE, !.wd_edit = path]
        ELSE h)

\* update_parameter_set, lines 626-651: load the preset at `index`
update_parameter_set_load(s, index) ==
    IF index < 0 \/ index > Len(s.parameter_model.params)
    THEN Raise(s, "KeyError") ELSE
    LET got == get_executor_parameters(s.parameter_model, index)
        working_dir_params == got.params.working_dir
    IN  IF s.current_widget.class = None
        THEN Raise(s, "AttributeError") ELSE
        LET stored_parameters ==
                IF got.action = SetDefaults
                THEN get_default_configuration(s.current_widget)
                ELSE got.params.executor_params
        IN  Bind([s EXCEPT !.current_widget =
                               set_configuration(@, stored_parameters)],
                 LAMBDA s1 :
            update_parameter_set_working_dir(s1, working_dir_params))

RECURSIVE update_parameter_set(_, _)

\* parameters_combo.setCurrentIndex(index);
\* currentIndexChanged -> update_parameter_set
parameters_combo_setCurrentIndex(s, index) ==
    LET new == ValidIndex(index, parameters_combo_count(s))
    IN  IF new = s.parameters_combo.currentIndex THEN s
        ELSE Bind([s EXCEPT !.parameters_combo.currentIndex = new],
                  LAMBDA s1 : Slot(update_parameter_set(s1, new)))

\* update_parameter_set, lines 621-624: the deferred index replaces the argument
update_parameter_set(s, index) ==
    IF index < 0 THEN s ELSE
    IF "index_to_select" \notin s.defined
    THEN Raise(s, "AttributeError") ELSE
    IF s.index_to_select # <<>>
    THEN LET deferred == s.index_to_select[1]
         IN  Bind([s EXCEPT !.index_to_select = <<>>], LAMBDA s1 :
             Bind(parameters_combo_setCurrentIndex(s1, deferred), LAMBDA s2 :
             update_parameter_set_load(s2, deferred)))
    ELSE update_parameter_set_load(s, index)

\* variant of the filter that hands every stored preset over
display_executor_configuration_filter_all(stored_params, uuid) ==
    stored_params

\* display_executor_configuration, lines 691-696: only global presets and
\* those of the current file
display_executor_configuration_filter(stored_params, uuid) ==
    SelectSeq(stored_params, LAMBDA v : v.file_uuid \in {None, uuid})

\* display_executor_configuration, lines 685-709
display_executor_configuration_parameters(s, uuid, executor_name) ==
    IF uuid \notin s.run_conf_model.registered THEN s ELSE
    LET stored_params ==
            display_executor_configuration_filter(s.run_conf_model.params, uuid)
        selected_params == s.run_conf_model.last_used
    IN  \* set_parameters resets the model: the combo box loses its selection
        Bind([s EXCEPT !.parameter_model =
                            set_parameters(@, stored_params, uuid),
                       !.parameters_combo.currentIndex = -1], LAMBDA s1 :
        LET index == get_parameters_index_by_uuid(s1.parameter_model,
                                                  selected_params)
        IN  Bind(IF parameters_combo_count(s1) = 0
                 THEN [s1 EXCEPT !.index_to_select = <<index>>,
                                 !.defined = @ \cup {"index_to_select"}]
                 ELSE s1, LAMBDA s2 :
            parameters_combo_setCurrentIndex(s2, index)))

display_executor_configuration(s, index) ==
    IF index = -1 THEN s ELSE
    Bind([s EXCEPT !.current_widget = NoWidget], LAMBDA s1 :
    IF index < 0 \/ index >= Len(s1.executors_model.executors)
    THEN Raise(s1, "IndexError") ELSE
    LET executor_name == s1.executors_model.executors[index + 1]
        executor_info == ExecutorInfo(executor_name)
        enable_cwd == executor_info.requires_cwd
        ConfigWidget == IF executor_info.configuration_widget # None
                        THEN executor_info.configuration_widget
                        ELSE RunExecutorConfigurationGroup
        metadata == get_selected_metadata(s1.run_conf_model)
    IN  Bind([s1 EXCEPT !.wdir_group = enable_cwd,
                        !.executor_group =
                            (executor_info.configuration_widget # None)],
             LAMBDA s2 :
        IF metadata = <<>> THEN Raise(s2, "TypeError") ELSE
        Bind([s2 EXCEPT !.current_widget = NewWidget(ConfigWidget)], LAMBDA s3 :
        display_executor_configuration_parameters(
            s3, metadata[1].uuid, executor_name))))

\* executor_combo.setCurrentIndex(index);
\* currentIndexChanged -> display_executor_configuration
executor_combo_setCurrentIndex(s, index) ==
    LET new == ValidIndex(index, Len(s.executors_model.executors))
    IN  IF new = s.executor_combo.currentIndex THEN s
        ELSE Bind([s EXCEPT !.executor_combo.currentIndex = new], LAMBDA s1 :
             Slot(display_executor_configuration(s1, new)))

\* run_conf_model.update_index(index): the file becomes the current
\* configuration and the executors model switches to its executors
update_index(s, index) ==
    IF index < 0 \/ index >= Len(s.run_conf_model.configurations) THEN s ELSE
    LET uuid == s.run_conf_model.configurations[index + 1].uuid
    IN  [s EXCEPT !.run_conf_model.current_configuration = uuid,
                  !.executors_model.executors = ExecutorsFor(uuid),
                  !.executor_combo.currentIndex = -1]

update_configuration_run_index(s, index) ==
    Bind(executor_combo_setCurrentIndex(s, -1), LAMBDA s1 :
    Bind(update_index(s1, index), LAMBDA s2 :
    executor_combo_setCurrentIndex(
        s2, executors_get_initial_index(s2.executors_model))))

\* configuration_combo.setCurrentIndex(index);
\* currentIndexChanged -> update_configuration_run_index
configuration_combo_setCurrentIndex(s, index) ==
    LET new == ValidIndex(index, Len(s.run_conf_model.configurations))
    IN  IF new = s.configuration_combo.currentIndex THEN s
        ELSE Bind([s EXCEPT !.configuration_combo.currentIndex = new],
                  LAMBDA s1 : Slot(update_configuration_run_index(s1, new)))

\* RunDialog.setup, lines 577-594.  setModel selects the first row of a
\* model that has rows.
RunDialog_setup(s) ==
    Bind(executor_combo_setCurrentIndex(s, 0), LAMBDA s1 :
    Bind(configuration_combo_setCurrentIndex(s1, 0), LAMBDA s2 :
    Bind(configuration_combo_setCurrentIndex(
             s2, s2.run_conf_model.initial_index), LAMBDA s3 :
    Bind([s3 EXCEPT !.parameters_combo.has_model = TRUE], LAMBDA s4 :
    Bind(parameters_combo_setCurrentIndex(s4, 0), LAMBDA s5 :
    [s5 EXCEPT !.is_setup = TRUE])))))

RunDialog_reset_btn_clicked(s) ==
    Bind(parameters_combo_setCurrentIndex(s, -1), LAMBDA s1 :
    Bind(display_executor_configuration(s1, s1.executor_combo.currentIndex),
         LAMBDA s2 :
    IF s2.exc # "" THEN s2 ELSE [s2 EXCEPT !.name_params_text = ""]))

\* get_configuration, lines 725-729: saved_conf is no attribute before accept
RunDialog_get_configuration(s) ==
    IF "saved_conf" \in s.defined
    THEN [exc |-> "", value |-> s.saved_conf]
    ELSE [exc |-> "AttributeError", value |-> <<>>]

\* variant that never assigns "Custom"
RunDialog_accept_given_name_typed(s) == s.name_params_text

\* accept, lines 736-746: the name typed, or "Custom"
RunDialog_accept_given_name(s) ==
    LET default_conf == get_default_configuration(s.current_widget)
        widget_conf == get_configuration(s.current_widget)
        given_name == s.name_params_text
    IN  IF given_name = "" /\ widget_conf # default_conf
        THEN "Custom"
        ELSE given_name

\* variant that takes the selected preset whatever the name
RunDialog_accept_idx_selected(s, given_name) ==
    s.parameters_combo.currentIndex

\* accept, lines 748-752
RunDialog_accept_idx(s, given_name) ==
    IF given_name # ""
    THEN get_parameters_index_by_name(s.parameter_model, given_name)
    ELSE s.parameters_combo.currentIndex

\* accept, lines 754-762 -> (uuid, name)
RunDialog_accept_uuid_name(s, idx, given_name, new_uuid) ==
    IF idx = -1
    THEN <<new_uuid, given_name>>
    ELSE get_parameters_uuid_name(s.parameter_model, idx)

\* variant that reads the path field whatever the selector
RunDialog_accept_working_dir_keeps_path(s) ==
    IF s.file_dir_radio
    THEN WorkingDirOpts(ConfigurationDirectory, s.wd_edit)
    ELSE IF s.cwd_radio
    THEN WorkingDirOpts(CurrentDirectory, s.wd_edit)
    ELSE WorkingDirOpts(CustomDirectory, s.wd_edit)

\* accept, lines 764-774: read the selectors back
RunDialog_accept_working_dir(s) ==
    IF s.file_dir_radio
    THEN WorkingDirOpts(ConfigurationDirectory, None)
    ELSE IF s.cwd_radio
    THEN WorkingDirOpts(CurrentDirectory, None)
    ELSE WorkingDirOpts(CustomDirectory, s.wd_edit)

\* uuid4() is called only when no parameters were found (line 758)
RunDialog_accept_calls_uuid4(s) ==
    /\ s.current_widget.class # None
    /\ RunDialog_accept_idx(s, RunDialog_accept_given_name(s)) = -1

RunDialog_accept(s, new_uuid) ==
    Bind([s EXCEPT !.status = BitOr(@, Save)], LAMBDA s1 :
    IF s1.current_widget.class = None
    THEN Raise(s1, "AttributeError") ELSE
    LET widget_conf == get_configuration(s1.current_widget)
        given_name == RunDialog_accept_given_name(s1)
        idx == RunDialog_accept_idx(s1, given_name)
        uuid_name == RunDialog_accept_uuid_name(s1, idx, given_name, new_uuid)
        cwd_opts == RunDialog_accept_working_dir(s1)
        exec_params == RunExecutionParameters(cwd_opts, widget_conf)
        file_index == s1.configuration_combo.currentIndex
        executor_index == s1.executor_combo.currentIndex
    IN  IF file_index < 0 \/ executor_index < 0
        THEN Raise(s1, "KeyError") ELSE
        LET metadata_info == s1.run_conf_model.configurations[file_index + 1]
            ext_exec_params ==
                ExtendedRunExecutionParameters(
                    uuid_name[1], uuid_name[2], exec_params, metadata_info.uuid)
            executor_name == s1.executors_model.executors[executor_index + 1]
        IN  [s1 EXCEPT !.saved_conf = << <<metadata_info.uuid, executor_name,
                                           ext_exec_params>> >>,
                       !.defined = @ \cup {"saved_conf"},
                       !.result = "Accepted"])

RunDialog_run_btn_clicked(s, new_uuid) ==
    Bind([s EXCEPT !.status = BitOr(@, Run)], LAMBDA s1 :
    RunDialog_accept(s1, new_uuid))

\* RunDialog.__init__, lines 450-456, and the child widgets as setup creates
\* them (lines 462-574) before any signal fires
RunDialog_init(run_conf_model, executors_model, parameter_model, disable_run_btn) ==
    [class |-> RunDialog,
     run_conf_model |-> run_conf_model,
     executors_model |-> executors_model,
     parameter_model |-> parameter_model,
     disable_run_btn |-> disable_run_btn,
     current_widget |-> NoWidget,
     status |-> Close,
     saved_conf |-> <<>>,
     index_to_select |-> <<>>,
     defined |-> {},
     configuration_combo |-> [currentIndex |-> -1],
     executor_combo |-> [currentIndex |-> -1],
     parameters_combo |-> [currentIndex |-> -1, has_model |-> FALSE],
     name_params_text |-> "",
     executor_group |-> TRUE,
     wdir_group |-> TRUE,
     file_dir_radio |-> FALSE,
     cwd_radio |-> FALSE,
     fixed_dir_radio |-> FALSE,
     wd_edit |-> "",
     result |-> "Open",
     is_setup |-> FALSE,
     exc |-> "",
     raised |-> "",
     applied_working_dir |-> <<>>,
     working_dir_edited |-> FALSE]

----------------------------------------------------------------------------
(* Inputs: what the caller constructs the dialogs with *)

Preset(uuid, name, source, path, conf, file_uuid) ==
    ExtendedRunExecutionParameters(
        uuid, name,
        RunExecutionParameters(WorkingDirOpts(source, path), conf),
        file_uuid)

\* the presets the persistence layer may hold
PresetPool ==
    << Preset("u1", "A", ConfigurationDirectory, None, "a=1", None),
       Preset("u2", "Custom", CustomDirectory, "/a", "a=0", None),
       Preset("u3", "B", CurrentDirectory, "/a", "b=1", "X"),
       Preset("u4", "Custom", CustomDirectory, "", "{}", "Y") >>

\* a preset whose executor parameters were never set
UnsetPreset == Preset("u5", "C", CurrentDirectory, None, None, None)

\* executor_params: (extension, context) -> SupportedExecutionRunConfiguration
ExecutorParams ==
    (<<"py", "script">> :>
        [requires_cwd |-> TRUE, configuration_widget |-> ExecutorConfWidget])
    @@ (<<"py", "cell">> :>
        [requires_cwd |-> FALSE, configuration_widget |-> None])
    @@ (<<"r", "cell">> :>
        [requires_cwd |-> TRUE, configuration_widget |-> None])

Extensions == <<"py", "r">>

\* contexts: extension -> [contexts]; the second one is the mapping of the
\* documented scenario, which has no entry for "r"
ContextsChoices ==
    { ("py" :> <<"script", "cell">>) @@ ("r" :> <<"cell">>),
      ("py" :> <<"script", "cell">>),
      ("py" :> <<"script", "cell">>) @@ ("r" :> <<>>) }

DefaultParamsChoices ==
    {<<>>, <<UnsetPreset>>} \cup {<<PresetPool[i]>> : i \in 1..Len(PresetPool)}

\* every contexts mapping with and without default parameters, and every
\* default parameters with the full mapping
EPD_Scenarios ==
    (ContextsChoices \X {<<>>, <<PresetPool[2]>>})
    \cup ({("py" :> <<"script", "cell">>) @@ ("r" :> <<"cell">>)}
          \X DefaultParamsChoices)

EPD_Init ==
    \E scenario \in EPD_Scenarios,
       extension \in {None, "py"}, context \in {None, "cell"} :
        self = EPD_init(ExecutorParams, Extensions, scenario[1], scenario[2],
                        extension, context)

----------------------------------------------------------------------------
(* Actions *)

Begin(s) == [s EXCEPT !.raised = "", !.exc = ""]

Op(name, index) == [name |-> name, index |-> index]

Shown == self.is_setup /\ self.result = "Open"

SetupEditor ==
    /\ ~self.is_setup
    /\ self.class = ExecutionParametersDialog
    /\ self' = Slot(EPD_setup(Begin(self)))
    /\ op' = Op("setup", -1)
    /\ UNCHANGED uuid4_calls

\* the user picks another entry of the extension combo box
SelectExtension ==
    /\ Shown /\ self.class = ExecutionParametersDialog
    /\ self.extension_combo.enabled
    /\ \E index \in 0..(Len(self.extension_combo.items) - 1) :
        /\ index # self.extension_combo.currentIndex
        /\ self' = extension_combo_setCurrentIndex(Begin(self), index)
        /\ op' = Op("extension_changed", index)
    /\ UNCHANGED uuid4_calls

\* the user picks another entry of the context combo box
SelectContext ==
    /\ Shown /\ self.class = ExecutionParametersDialog
    /\ self.context_combo.enabled
    /\ \E index \in 0..(Len(self.context_combo.items) - 1) :
        /\ index # self.context_combo.currentIndex
        /\ self' = context_combo_setCurrentIndex(Begin(self), index)
        /\ op' = Op("context_changed", index)
    /\ UNCHANGED uuid4_calls

\* the user edits the executor-specific configuration widget
EditWidget ==
    /\ Shown
    /\ self.executor_group
    /\ self.current_widget.class = ExecutorConfWidget
    /\ \E conf \in {"a=0", "a=1"} :
        /\ conf # self.current_widget.conf
        /\ self' = [Begin(self) EXCEPT !.current_widget.conf = conf]
    /\ op' = Op("edit", -1)
    /\ UNCHANGED uuid4_calls

\* the user clicks one of the three (auto-exclusive) radio buttons
ClickRadio ==
    /\ Shown
    /\ self.wdir_group
    /\ \E source \in WorkingDirSource :
        /\ self' = [Begin(self) EXCEPT
                      !.file_dir_radio = (source = ConfigurationDirectory),
                      !.cwd_radio = (source = CurrentDirectory),
                      !.fixed_dir_radio = (source = CustomDirectory),
                      !.working_dir_edited = TRUE]
        /\ self' # Begin(self)
    /\ op' = Op("edit", -1)
    /\ UNCHANGED uuid4_calls

\* the user types in the path field (enabled while the fixed-directory radio
\* is checked: fixed_dir_radio.toggled -> wd_edit.setEnabled)
TypeWorkingDir ==
    /\ Shown
    /\ self.wdir_group /\ self.fixed_dir_radio
    /\ \E text \in {""} \cup Dirs :
        /\ text # self.wd_edit
        /\ self' = [Begin(self) EXCEPT !.wd_edit = text,
                                       !.working_dir_edited = TRUE]
    /\ op' = Op("edit", -1)
    /\ UNCHANGED uuid4_calls

\* select_directory, lines 365-373 / 601-609; "" is the cancelled picker
select_directory(s, directory) ==
    IF directory # ""
    THEN [s EXCEPT !.wd_edit = directory, !.working_dir_edited = TRUE]
    ELSE s

SelectDirectory ==
    /\ Shown
    /\ self.wdir_group
    /\ \E directory \in {""} \cup Dirs :
        self' = select_directory(Begin(self), directory)
    /\ op' = Op("edit", -1)
    /\ UNCHANGED uuid4_calls

\* the user types in the name field
TypeEditorName ==
    /\ Shown /\ self.class = ExecutionParametersDialog
    /\ \E name \in {"", "A"} :
        /\ name # self.store_params_text
        /\ self' = [Begin(self) EXCEPT !.store_params_text = name]
    /\ op' = Op("edit", -1)
    /\ UNCHANGED uuid4_calls

\* Ok button (bbox.accepted -> accept)
AcceptEditor ==
    /\ Shown /\ self.class = ExecutionParametersDialog
    /\ self.ok_btn
    /\ IF EPD_accept_calls_uuid4(self)
       THEN uuid4_calls < MaxUuid4 /\ uuid4_calls' = uuid4_calls + 1
       ELSE UNCHANGED uuid4_calls
    /\ self' = Slot(EPD_accept(Begin(self), uuid4(uuid4_calls + 1)))
    /\ op' = Op("accept", -1)

\* Cancel button or closing the window (bbox.rejected -> QDialog.reject)
Reject ==
    /\ Shown
    /\ self' = [Begin(self) EXCEPT !.result = "Rejected"]
    /\ op' = Op("reject", -1)
    /\ UNCHANGED uuid4_calls

\* Reset button
ResetEditor ==
    /\ Shown /\ self.class = ExecutionParametersDialog
    /\ self' = Slot(EPD_reset_btn_clicked(Begin(self)))
    /\ op' = Op("reset", -1)
    /\ UNCHANGED uuid4_calls

\* the files of the run-configuration model
RunConfigurations ==
    << [uuid |-> "X", context |-> "file", input_extension |-> "py"],
       [uuid |-> "Y", context |-> "file", input_extension |-> "py"] >>

\* the presets of PresetPool at the positions `chosen`, in pool order
PoolSelection(chosen) ==
    [i \in 1..Cardinality(chosen) |->
        PresetPool[CHOOSE k \in chosen :
                       Cardinality({j \in chosen : j < k}) = i - 1]]

StoredParamsChoices ==
    {PoolSelection(chosen) :
        chosen \in {c \in SUBSET (1..Len(PresetPool)) :
                       Cardinality(c) <= MaxPresets}}

RunConfModel(params, last_used, registered, initial_index) ==
    [configurations |-> RunConfigurations,
     registered |-> registered,
     current_configuration |-> None,
     initial_index |-> initial_index,
     params |-> params,
     last_used |-> last_used]

\* every stored preset list with no last-used preset or its first preset as
\* the last-used one; a file the model does not hold; another initial file
RunDialog_Scenarios ==
    {<<RunConfModel(params, last_used, {"X", "Y"}, 0), FALSE>> :
        params \in StoredParamsChoices,
        last_used \in {None, "u1", "u2"}}
    \cup {<<RunConfModel(<<PresetPool[1], PresetPool[3]>>, None, registered,
                         initial_index), TRUE>> :
             registered \in {{"X"}, {"Y"}}, initial_index \in {0, 1}}
    \cup {<<RunConfModel(<<PresetPool[2]>>, "u2", {"X", "Y"}, 1), FALSE>>}

RunDialog_Init ==
    \E scenario \in RunDialog_Scenarios :
        self = RunDialog_init(scenario[1], [executors |-> <<>>],
                              [params |-> <<>>, set_for |-> None],
                              scenario[2])

SetupRunDialog ==
    /\ ~self.is_setup
    /\ self.class = RunDialog
    /\ self' = Slot(RunDialog_setup(Begin(self)))
    /\ op' = Op("setup", -1)
    /\ UNCHANGED uuid4_calls

\* another file becomes the current one (configuration_combo is hidden: the
\* owner of the dialog selects the file)
SelectFile ==
    /\ Shown /\ self.class = RunDialog
    /\ \E index \in 0..(Len(self.run_conf_model.configurations) - 1) :
        /\ index # self.configuration_combo.currentIndex
        /\ self' = configuration_combo_setCurrentIndex(Begin(self), index)
        /\ op' = Op("update_configuration_run_index", index)
    /\ UNCHANGED uuid4_calls

\* the user picks another executor (or select_executor does)
SelectExecutor ==
    /\ Shown /\ self.class = RunDialog
    /\ \E index \in 0..(Len(self.executors_model.executors) - 1) :
        /\ index # self.executor_combo.currentIndex
        /\ self' = executor_combo_setCurrentIndex(Begin(self), index)
        /\ op' = Op("display_executor_configuration", index)
    /\ UNCHANGED uuid4_calls

\* the user picks another preset
SelectParameters ==
    /\ Shown /\ self.class = RunDialog
    /\ \E index \in 0..(parameters_combo_count(self) - 1) :
        /\ index # self.parameters_combo.currentIndex
        /\ self' = parameters_combo_setCurrentIndex(Begin(self), index)
        /\ op' = Op("update_parameter_set", index)
    /\ UNCHANGED uuid4_calls

\* the user types in the name field
TypeRunName ==
    /\ Shown /\ self.class = RunDialog
    /\ \E name \in {"", "Custom", "New"} :
        /\ name # self.name_params_text
        /\ self' = [Begin(self) EXCEPT !.name_params_text = name]
    /\ op' = Op("edit", -1)
    /\ UNCHANGED uuid4_calls

\* Ok button (bbox.accepted -> accept)
AcceptRun ==
    /\ Shown /\ self.class = RunDialog
    /\ IF RunDialog_accept_calls_uuid4(self)
       THEN uuid4_calls < MaxUuid4 /\ uuid4_calls' = uuid4_calls + 1
       ELSE UNCHANGED uuid4_calls
    /\ self' = Slot(RunDialog_accept(Begin(self), uuid4(uuid4_calls + 1)))
    /\ op' = Op("accept", -1)

\* Run button
ClickRun ==
    /\ Shown /\ self.class = RunDialog
    /\ ~self.disable_run_btn
    /\ IF RunDialog_accept_calls_uuid4(self)
       THEN uuid4_calls < MaxUuid4 /\ uuid4_calls' = uuid4_calls + 1
       ELSE UNCHANGED uuid4_calls
    /\ self' = Slot(RunDialog_run_btn_clicked(Begin(self),
                                              uuid4(uuid4_calls + 1)))
    /\ op' = Op("run", -1)

\* Reset button
ResetRun ==
    /\ Shown /\ self.class = RunDialog
    /\ self' = Slot(RunDialog_reset_btn_clicked(Begin(self)))
    /\ op' = Op("reset", -1)
    /\ UNCHANGED uuid4_calls

Init ==
    /\ (EPD_Init \/ RunDialog_Init)
    /\ op = Op("init", -1)
    /\ uuid4_calls = 0

Next ==
    \/ SetupEditor
    \/ SelectExtension
    \/ SelectContext
    \/ EditWidget
    \/ ClickRadio
    \/ TypeWorkingDir
    \/ SelectDirectory
    \/ TypeEditorName
    \/ AcceptEditor
    \/ Reject
    \/ ResetEditor
    \/ SetupRunDialog
    \/ SelectFile
    \/ SelectExecutor
    \/ SelectParameters
    \/ TypeRunName
    \/ AcceptRun
    \/ ClickRun
    \/ ResetRun

Spec == Init /\ [][Next]_vars

----------------------------------------------------------------------------
(* Properties *)

IsEditor == self.class = ExecutionParametersDialog
IsRunDialog == self.class = RunDialog

\* the ExtendedRunExecutionParameters of the stored result
SavedParams == self.saved_conf[1][3]

\* the presets the parameter model holds
ModelPresets == Range(self.parameter_model.params)

\* the working directory options accept reads back in state s
ReadWorkingDir(s) ==
    IF s.class = ExecutionParametersDialog
    THEN EPD_accept_working_dir(s)
    ELSE RunDialog_accept_working_dir(s)

\* the dialog's getter
DialogConfiguration ==
    IF IsEditor
    THEN EPD_get_configuration(self)
    ELSE RunDialog_get_configuration(self)

\* the working-directory options last applied to the controls are still
\* what the controls show: no user edit since
Applied == self.applied_working_dir # <<>> /\ ~self.working_dir_edited
AppliedOpts == self.applied_working_dir[1]

\* C1: in the file run dialog, the presets display_executor_configuration
\* hands to the parameter model for file F are all global (file_uuid = None)
\* or scoped to F.
C1_OnlyGlobalOrOwnPresets ==
    IsRunDialog =>
        \A preset \in ModelPresets :
            preset.file_uuid \in {None, self.parameter_model.set_for}

\* C1 witness: the persistence layer holds a global preset and one scoped
\* to X; the dialog shows file Y and its parameter model holds only the
\* global one.
C1_Witness ==
    /\ IsRunDialog
    /\ self.run_conf_model.current_configuration = "Y"
    /\ self.parameter_model.set_for = "Y"
    /\ \E preset \in Range(self.run_conf_model.params) : preset.file_uuid = "X"
    /\ Len(self.parameter_model.params) = 1
    /\ self.parameter_model.params[1].file_uuid = None

\* C2: in the single-use editor, accept with an empty name field leaves the
\* dialog open and leaves saved_conf as it was.
C2_EmptyNameRejected ==
    [][(IsEditor /\ op'.name = "accept" /\ self.store_params_text = "")
        => (self'.result = "Open" /\ self'.saved_conf = self.saved_conf)]_vars

\* C2 witness: an accept with an empty name was refused and the prompt shown
C2_Witness ==
    /\ IsEditor
    /\ op.name = "accept"
    /\ self.raised = ""
    /\ self.store_params_text = ""
    /\ self.placeholder = "Set a name here to proceed!"
    /\ self.result = "Open"
    /\ self.saved_conf = <<>>

\* accept of the file run dialog completed with a blank name field while the
\* widget configuration differs from its defaults (the dialog is closed, so
\* the fields are those accept read)
BlankNameCustomised ==
    /\ IsRunDialog
    /\ self.result = "Accepted"
    /\ self.name_params_text = ""
    /\ get_configuration(self.current_widget)
           # get_default_configuration(self.current_widget)

\* C3 as stated: such an accept yields the name "Custom" and an identifier
\* that no preset of the parameter model has, whatever the parameter model
\* holds.
C3_CustomAlwaysFresh ==
    BlankNameCustomised =>
        /\ SavedParams.name = "Custom"
        /\ \A preset \in ModelPresets : preset.uuid # SavedParams.uuid

\* C3 amended: such an accept yields the name "Custom"; the identifier is
\* freshly generated when the parameter model holds no preset named "Custom",
\* and is the identifier of that preset when it holds one.
C3_CustomFreshUnlessStored ==
    BlankNameCustomised =>
        /\ SavedParams.name = "Custom"
        /\ IF \E preset \in ModelPresets : preset.name = "Custom"
           THEN \E preset \in ModelPresets :
                    preset.name = "Custom" /\ preset.uuid = SavedParams.uuid
           ELSE /\ SavedParams.uuid = uuid4(uuid4_calls)
                /\ \A preset \in ModelPresets : preset.uuid # SavedParams.uuid

\* C3 witness: blank name, customised widget, presets in the model but none
\* named "Custom": the result is "Custom" with a fresh identifier
C3_Witness ==
    /\ BlankNameCustomised
    /\ ModelPresets # {}
    /\ \A preset \in ModelPresets : preset.name # "Custom"
    /\ SavedParams.name = "Custom"
    /\ SavedParams.uuid = uuid4(uuid4_calls)

\* C4: in the file run dialog accept, when the resolved name (typed, or the
\* auto-assigned "Custom") is not empty: the result carries the identifier
\* and name of a preset of the parameter model with that name if there is
\* one, and a newly minted identifier with the resolved name otherwise.
C4_NameResolvesIdentifier ==
    (IsRunDialog /\ self.result = "Accepted"
       /\ RunDialog_accept_given_name(self) # "") =>
        LET resolved == RunDialog_accept_given_name(self)
        IN  IF \E preset \in ModelPresets : preset.name = resolved
            THEN \E preset \in ModelPresets :
                    /\ preset.name = resolved
                    /\ SavedParams.uuid = preset.uuid
                    /\ SavedParams.name = preset.name
            ELSE /\ SavedParams.uuid = uuid4(uuid4_calls)
                 /\ SavedParams.name = resolved
                 /\ \A preset \in ModelPresets :
                        preset.uuid # SavedParams.uuid

\* C4 witness: a typed name nothing is stored under, while a stored preset
\* is the selected one
C4_Witness ==
    /\ IsRunDialog /\ self.result = "Accepted"
    /\ self.name_params_text = "New"
    /\ self.parameters_combo.currentIndex >= 0
    /\ self.parameters_combo.currentIndex < Len(self.parameter_model.params)
    /\ SavedParams.name = "New"
    /\ SavedParams.uuid = uuid4(uuid4_calls)

\* C5: options with source ConfigurationDirectory or CurrentDirectory,
\* whatever their path, applied to the controls and read back with no user
\* edit in between, give the same source and path = None (both in what
\* accept would read and in the result an accept stored).
C5_RoundTripNotCustom ==
    (Applied /\ AppliedOpts.source # CustomDirectory) =>
        /\ ReadWorkingDir(self) = WorkingDirOpts(AppliedOpts.source, None)
        /\ self.result = "Accepted" =>
               SavedParams.params.working_dir
                   = WorkingDirOpts(AppliedOpts.source, None)

\* C5 witness: CurrentDirectory with a path was applied and accept read it back
C5_Witness ==
    /\ Applied
    /\ AppliedOpts = WorkingDirOpts(CurrentDirectory, "/a")
    /\ self.result = "Accepted"
    /\ SavedParams.params.working_dir = WorkingDirOpts(CurrentDirectory, None)

\* C6: options with source CustomDirectory and a non-empty path, applied to
\* the controls and read back with no user edit in between, give
\* CustomDirectory and exactly that path.
C6_RoundTripCustom ==
    (Applied /\ AppliedOpts.source = CustomDirectory
       /\ AppliedOpts.path \notin {None, ""}) =>
        /\ ReadWorkingDir(self) = AppliedOpts
        /\ self.result = "Accepted" =>
               SavedParams.params.working_dir = AppliedOpts

\* C6 witness: a custom directory was applied and accept read it back
C6_Witness ==
    /\ Applied
    /\ AppliedOpts = WorkingDirOpts(CustomDirectory, "/a")
    /\ self.result = "Accepted"
    /\ SavedParams.params.working_dir = WorkingDirOpts(CustomDirectory, "/a")

\* C7 as stated: after every extension change of the single-use editor the
\* context list holds exactly the contexts mapped to the selected extension
\* and the context selection is a valid index of it: the preselected
\* context's index, or 0.
C7_ExtensionChangeSelectsContext ==
    (IsEditor /\ op.name = "extension_changed") =>
        /\ self.extension_combo.currentIndex = op.index
        /\ self.selected_extension = self.extension_combo.items[op.index + 1]
        /\ self.selected_extension \in DOMAIN self.contexts
        /\ self.context_combo.items = self.contexts[self.selected_extension]
        /\ self.context_combo.currentIndex >= 0
        /\ self.context_combo.currentIndex < Len(self.context_combo.items)
        /\ IF self.context = None
           THEN self.context_combo.currentIndex = 0
           ELSE self.context_combo.items[self.context_combo.currentIndex + 1]
                    = self.context

\* C8: driving the controls from working-directory options leaves exactly
\* one selector checked, the one of the source, and the path field equal to
\* the path for CustomDirectory and empty otherwise.
C8_SelectorsFollowSource ==
    (Applied /\ self.exc = "" /\ self.raised # "TypeError") =>
        /\ self.file_dir_radio = (AppliedOpts.source = ConfigurationDirectory)
        /\ self.cwd_radio = (AppliedOpts.source = CurrentDirectory)
        /\ self.fixed_dir_radio = (AppliedOpts.source = CustomDirectory)
        /\ self.wd_edit = IF AppliedOpts.source = CustomDirectory
                          THEN AppliedOpts.path
                          ELSE ""

\* C8 witness: a preset with CurrentDirectory was loaded over a custom
\* directory; only the current-directory selector is checked and the path
\* field is empty
C8_Witness ==
    /\ IsRunDialog
    /\ op.name = "update_parameter_set"
    /\ Applied
    /\ AppliedOpts.source = CurrentDirectory
    /\ self.cwd_radio /\ ~self.file_dir_radio /\ ~self.fixed_dir_radio
    /\ self.wd_edit = ""

C10_ResultOnlyAfterAccept ==
    /\ (DialogConfiguration.exc = "" /\ DialogConfiguration.value # <<>>)
           => self.result = "Accepted"
    /\ self.result = "Accepted"
           => (DialogConfiguration.exc = "" /\ DialogConfiguration.value # <<>>)

\* C10 witness: an accept was refused, then the dialog was cancelled: the
\* status has the Save flag and there is no result
C10_Witness ==
    /\ self.result = "Rejected"
    /\ HasFlag(self.status, Save)
    /\ ~(DialogConfiguration.exc = "" /\ DialogConfiguration.value # <<>>)

\* C11 as stated: in every state of a shown dialog, each reconciliation
\* handler invoked with the "no selection" index -1 returns the dialog as it
\* was: extension_changed and context_changed in the single-use editor,
\* update_parameter_set, display_executor_configuration and
\* update_configuration_run_index in the file run dialog.
C11_SentinelIsNoOp ==
    Shown =>
        /\ IsEditor =>
               /\ extension_changed(self, -1) = self
               /\ context_changed(self, -1) = self
        /\ IsRunDialog =>
               /\ update_parameter_set(self, -1) = self
               /\ display_executor_configuration(self, -1) = self
               /\ update_configuration_run_index(self, -1) = self

\* the configuration the last set_configuration call handed to the current
\* widget (None when the widget was never configured)
LastSetConfiguration == self.current_widget.set_with

\* C12 as stated: in the single-use editor, once context_changed has built
\* the widget for a dialog constructed with a prior parameter set, the last
\* set_configuration call received the prior executor parameters when their
\* key set equals the key set of the widget's default configuration, and the
\* default configuration otherwise.
C12_PriorParametersOrDefaults ==
    (IsEditor /\ self.default_params # <<>>
       /\ self.current_widget.class # None) =>
        LET default_conf == get_default_configuration(self.current_widget)
            prior == self.default_params[1].params.executor_params
        IN  LastSetConfiguration =
                IF prior # None /\ Keys(prior) = Keys(default_conf)
                THEN prior
                ELSE default_conf

\* the executor metadata of the selected (extension, context) pair, once
\* context_changed has built the widget for it
ContextLoaded ==
    /\ IsEditor
    /\ self.current_widget.class # None
    /\ <<self.selected_extension, self.selected_context>>
           \in DOMAIN self.executor_params

SelectedMetadata ==
    self.executor_params[<<self.selected_extension, self.selected_context>>]

\* C13: in the single-use editor, once context_changed has run for a context
\* whose executor metadata has no configuration widget and requires_cwd =
\* FALSE, both groups are disabled and the OK button is disabled.
C13_OkDisabledWithoutGroups ==
    (ContextLoaded
       /\ SelectedMetadata.configuration_widget = None
       /\ ~SelectedMetadata.requires_cwd) =>
        /\ ~self.executor_group
        /\ ~self.wdir_group
        /\ ~self.ok_btn

\* C13 witness: the user moved to the context ("py", "cell"), which has
\* neither a configuration widget nor a working directory
C13_Witness ==
    /\ ContextLoaded
    /\ op.name = "context_changed"
    /\ self.raised = ""
    /\ self.selected_extension = "py" /\ self.selected_context = "cell"
    /\ SelectedMetadata.configuration_widget = None
    /\ ~SelectedMetadata.requires_cwd
    /\ ~self.executor_group /\ ~self.wdir_group
    /\ ~self.ok_btn

\* the controls show the preset at row `index` of the parameter model, as
\* update_parameter_set loads it
PresetLoaded(index) ==
    LET got == get_executor_parameters(self.parameter_model, index)
    IN  /\ self.applied_working_dir = <<got.params.working_dir>>
        /\ ~self.working_dir_edited
        /\ LastSetConfiguration =
               IF got.action = SetDefaults
               THEN get_default_configuration(self.current_widget)
               ELSE got.params.executor_params

\* the row display_executor_configuration defers: the last-used preset's
DeferredIndex ==
    get_parameters_index_by_uuid(self.parameter_model,
                                 self.run_conf_model.last_used)

\* C14 as stated: in the file run dialog (1) index_to_select is an attribute
\* (None or an index) from the moment update_parameter_set can read it, that
\* is once the preset combo box has its model; (2) the index recorded by
\* display_executor_configuration while the preset list was empty is the one
\* the first update_parameter_set call (the one setup triggers) selects and
\* loads, and the field is None afterwards; (3) every later
\* update_parameter_set call loads the preset of its own index.
C14_DeferredIndexOneShot ==
    IsRunDialog =>
        /\ self.parameters_combo.has_model
               => "index_to_select" \in self.defined
        /\ (op.name = "setup" /\ self.raised = "") =>
               /\ self.index_to_select = <<>>
               /\ self.parameters_combo.currentIndex = DeferredIndex
               /\ PresetLoaded(DeferredIndex)
        /\ (op.name = "update_parameter_set" /\ self.raised = "") =>
               /\ self.index_to_select = <<>>
               /\ self.parameters_combo.currentIndex = op.index
               /\ PresetLoaded(op.index)

\* what context_changed configures: the widget and the working-directory
\* controls
EditorControls(s) ==
    [current_widget |-> s.current_widget,
     file_dir_radio |-> s.file_dir_radio,
     cwd_radio |-> s.cwd_radio,
     fixed_dir_radio |-> s.fixed_dir_radio,
     wd_edit |-> s.wd_edit]

\* a dialog constructed with the arguments of s and showing the lists of s,
\* right after it loaded the context at `index` for the first time
EPD_first_load(s, index) ==
    Slot(context_changed(
        [EPD_init(s.executor_params, s.extensions, s.contexts,
                  s.default_params, s.extension, s.context)
            EXCEPT !.selected_extension = s.selected_extension,
                   !.extension_combo = s.extension_combo,
                   !.context_combo = s.context_combo],
        index))

\* the file run dialog shows a new widget of the selected executor, and,
\* when the run-configuration model holds the file, the last-used preset
\* loaded again
ExecutorReloaded ==
    LET executor_name ==
            self.executors_model.executors[self.executor_combo.currentIndex + 1]
        executor_info == ExecutorInfo(executor_name)
    IN  /\ self.current_widget.class =
               IF executor_info.configuration_widget # None
               THEN executor_info.configuration_widget
               ELSE RunExecutorConfigurationGroup
        /\ self.wdir_group = executor_info.requires_cwd
        /\ self.run_conf_model.current_configuration
               \in self.run_conf_model.registered =>
               /\ self.parameters_combo.currentIndex = DeferredIndex
               /\ PresetLoaded(DeferredIndex)

\* C15 as stated: a reset leaves the selection alone and reloads it.  In the
\* single-use editor the extension and context selections are unchanged and
\* the widget and the working-directory controls are those of the first
\* load of the selected context, whatever was edited; in the file run dialog
\* the file and executor selections are unchanged, the name field is empty
\* and the selected executor's widget and preset are loaded again.
C15_ResetReloadsSelection ==
    [][op'.name = "reset" =>
        IF IsEditor
        THEN /\ self'.extension_combo = self.extension_combo
             /\ self'.context_combo = self.context_combo
             /\ EditorControls(self') =
                    EditorControls(
                        EPD_first_load(self, self.context_combo.currentIndex))
        ELSE /\ self'.configuration_combo = self.configuration_combo
             /\ self'.executor_combo = self.executor_combo
             /\ self'.name_params_text = ""
             /\ self.executor_combo.currentIndex >= 0 => ExecutorReloaded'
       ]_vars

\* C16 as stated: in the single-use editor, after setup and any sequence of
\* extension changes, context changes and resets, the OK button is disabled
\* exactly when both the executor-parameters group and the
\* working-directory group are disabled.
C16_OkDisabledIffNoGroups ==
    (IsEditor /\ self.is_setup) =>
        (~self.ok_btn <=> (~self.executor_group /\ ~self.wdir_group))

\* C17 as stated: in the single-use editor the Save flag is in status only
\* if a result has been stored, so a dialog that was cancelled or closed has
\* status = Close.
C17_SaveFlagOnlyWithResult ==
    IsEditor =>
        /\ HasFlag(self.status, Save) => self.saved_conf # <<>>
        /\ self.result = "Rejected" => self.status = Close

====
